---- MODULE Spec2Model ----
(***************************************************************************)
(* Model of gns3server/modules/dynamips/nodes/atm_switch.py: the ATMSwitch *)
(* device (port table _nios, circuit table _mapping, name, hypervisor      *)
(* session) and its coroutines, each split at its `yield from` points.     *)
(* Spec: one call runs at a time on the device (single writer per device). *)
(* SpecRecorded, SpecLog: the same with histories kept. SpecConc: the      *)
(* plain port methods also run while a coroutine is suspended.             *)
(***************************************************************************)
EXTENDS Integers, Sequences, FiniteSets, TLC

\* ---------------------------------------------------------------- inputs
\* Bound on the number of calls made on the device in one behaviour.
MaxCalls == 5

Ports == {1, 2}
NIOs == {"nioA", "nioB"}
Vpis == {5}
Vcis == {100}
Names == {"SW1", "SW2"}
Files == {"/tmp/out.pcap"}
\* PCAP data link type tags, as strings of characters
DataLinkTypes ==
    {<<"D", "L", "T", "_", "A", "T", "M", "_", "R", "F", "C", "1", "4", "8", "3">>,
     <<"P", "P", "P">>}
DeviceId == "node-1"
\* Filter names a NIO can carry; "None" is Python's None.
ForeignFilter == "freq_drop"

VARIABLES
    name,        \* self._name
    hypervisor,  \* self._hypervisor: "None" or "hv"
    devices,     \* self._hypervisor.devices (a list)
    instances,   \* self._instances (identifier pool)
    nios,        \* self._nios: dict port -> nio
    mapping,     \* self._mapping: dict circuit key -> circuit key
    filters,     \* per NIO: its input_filter[0] and output_filter[0]
    pending,     \* the suspended coroutine of the device, or Idle
    inflight,    \* the request the suspended coroutine awaits a reply to
    result,      \* the last completed call: what it returned or raised
    acked,       \* circuits whose create was acknowledged and no delete since
    calls,       \* number of calls started
    sent,        \* the commands the channel has received (which ones), in order
    issued,      \* the calls that had a command to send, in call order
    last_port_op, \* per port: the last add_nio / remove_nio that succeeded
    last_map     \* per source key: destination of the last acknowledged map

vars == <<name, hypervisor, devices, instances, nios, mapping, filters,
          pending, inflight, result, acked, calls,
          sent, issued, last_port_op, last_map>>

\* the records kept about a behaviour, which no method reads
hist == <<sent, issued, last_port_op, last_map>>

\* ---------------------------------------------------------------- helpers
\* d[k] = v on a Python dict
DictSet(d, k, v) == [x \in (DOMAIN d) \cup {k} |-> IF x = k THEN v ELSE d[x]]

\* del d[k] on a Python dict (the caller checks k in d: KeyError otherwise)
DictDel(d, k) == [x \in (DOMAIN d) \ {k} |-> d[x]]

EmptyDict == [x \in {} |-> "None"]

\* list.remove(x): drops the first occurrence of x
RECURSIVE ListRemove(_, _)
ListRemove(l, x) ==
    IF l = <<>> THEN <<>>
    ELSE IF Head(l) = x THEN Tail(l)
    ELSE <<Head(l)>> \o ListRemove(Tail(l), x)

InList(l, x) == \E i \in 1..Len(l) : l[i] = x

\* The device as a call finds it.
Snapshot == [mapping |-> mapping, nios |-> nios, name |-> name,
             hypervisor |-> hypervisor, devices |-> devices,
             instances |-> instances, filters |-> filters]

NoSnap == [mapping |-> EmptyDict, nios |-> EmptyDict, name |-> "",
           hypervisor |-> "None", devices |-> <<>>, instances |-> {},
           filters |-> [n \in NIOs |-> [input |-> "None", output |-> "None"]]]

Idle == [op |-> "idle", args |-> <<>>, pc |-> "idle", before |-> NoSnap]

NoCmd == [kind |-> "none", cmd |-> "none", name |-> "", args |-> <<>>]

NoUndo == [valid |-> FALSE, mapping |-> EmptyDict]

NoResult == [op |-> "none", args |-> <<>>, outcome |-> "none", ret |-> "None",
             reply |-> "none", before |-> NoSnap, undoes |-> NoUndo]

\* a command line handed to self._hypervisor.send
Cmd(c, n, a) == [kind |-> "send", cmd |-> c, name |-> n, args |-> a]

\* a capability invoked on a NIO object
NioReq(c, n, a) == [kind |-> "nio", cmd |-> c, name |-> n, args |-> a]

\* History for round trips: an unmap call that directly follows the
\* acknowledged map call with the same arguments records the circuit table
\* that map call had found.
Undoes(op, args) ==
    IF /\ \/ op = "unmap_vp" /\ result.op = "map_vp"
          \/ op = "unmap_pvc" /\ result.op = "map_pvc"
       /\ result.outcome = "ok"
       /\ result.args = args
    THEN [valid |-> TRUE, mapping |-> result.before.mapping]
    ELSE NoUndo

\* a call ends: it returns (outcome "ok") or raises (outcome: the error).
\* reply is what the channel or NIO answered last, "none" if nothing was
\* asked of them.
Finish(op, args, outcome, ret, reply, before) ==
    /\ result' = [op |-> op, args |-> args, outcome |-> outcome, ret |-> ret,
                  reply |-> reply, before |-> before,
                  undoes |-> Undoes(op, args)]
    /\ pending' = Idle
    /\ inflight' = NoCmd

\* a call that suspends on a request
Suspend(op, args, pc, req) ==
    /\ pending' = [op |-> op, args |-> args, pc |-> pc, before |-> Snapshot]
    /\ inflight' = req
    /\ UNCHANGED result

CanCall == pending = Idle /\ calls < MaxCalls

Started == calls' = calls + 1

\* ---------------------------------------------------------------- Init
Init ==
    /\ name = "SW1"
    /\ hypervisor \in {"None", "hv"}
    /\ devices = <<>>
    /\ instances = {DeviceId}
    /\ nios = EmptyDict
    /\ mapping = EmptyDict
    /\ filters = [n \in NIOs |-> [input |-> "None", output |-> "None"]]
    /\ pending = Idle
    /\ inflight = NoCmd
    /\ result = NoResult
    /\ acked = {}
    /\ calls = 0
    /\ sent = <<>>
    /\ issued = <<>>
    /\ last_port_op = [p \in Ports |-> "none"]
    /\ last_map = EmptyDict

\* ---------------------------------------------------------------- ports
has_port(port) ==
    /\ CanCall /\ Started
    /\ Finish("has_port", <<port>>, "ok",
              IF port \in DOMAIN nios THEN "True" ELSE "False", "none", Snapshot)
    /\ UNCHANGED <<name, hypervisor, devices, instances, nios, mapping,
                   filters, acked>>

\* add_nio as it would be if it told the hypervisor of the new port
add_nio_notify(nio, port_number) ==
    /\ CanCall /\ Started
    /\ IF port_number \in DOMAIN nios
       THEN /\ Finish("add_nio", <<nio, port_number>>, "PortConflict", "None",
                      "none", Snapshot)
            /\ UNCHANGED nios
       ELSE /\ nios' = DictSet(nios, port_number, nio)
            /\ IF hypervisor = "None"
               THEN Finish("add_nio", <<nio, port_number>>, "ok", "None",
                           "none", Snapshot)
               ELSE Suspend("add_nio", <<nio, port_number>>, "send",
                            Cmd("atmsw add_nio", name, <<nio>>))
    /\ UNCHANGED <<name, hypervisor, devices, instances, mapping, filters,
                   acked>>

\* add_nio as it would be if it bound the new NIO before raising
add_nio_rebind(nio, port_number) ==
    /\ CanCall /\ Started
    /\ nios' = DictSet(nios, port_number, nio)
    /\ IF port_number \in DOMAIN nios
       THEN Finish("add_nio", <<nio, port_number>>, "PortConflict", "None",
                   "none", Snapshot)
       ELSE Finish("add_nio", <<nio, port_number>>, "ok", "None", "none",
                   Snapshot)
    /\ UNCHANGED <<name, hypervisor, devices, instances, mapping, filters,
                   acked>>

add_nio(nio, port_number) ==
    /\ CanCall /\ Started
    /\ IF port_number \in DOMAIN nios
       THEN /\ Finish("add_nio", <<nio, port_number>>, "PortConflict", "None",
                      "none", Snapshot)
            /\ UNCHANGED nios
       ELSE /\ nios' = DictSet(nios, port_number, nio)
            /\ Finish("add_nio", <<nio, port_number>>, "ok", "None", "none",
                      Snapshot)
    /\ UNCHANGED <<name, hypervisor, devices, instances, mapping, filters,
                   acked>>

\* remove_nio as it would be if it left the key with no NIO (a tombstone)
remove_nio_tombstone(port_number) ==
    /\ CanCall /\ Started
    /\ IF port_number \notin DOMAIN nios
       THEN /\ Finish("remove_nio", <<port_number>>, "PortNotAllocated",
                      "None", "none", Snapshot)
            /\ UNCHANGED nios
       ELSE /\ nios' = DictSet(nios, port_number, "None")
            /\ Finish("remove_nio", <<port_number>>, "ok", nios[port_number],
                      "none", Snapshot)
    /\ UNCHANGED <<name, hypervisor, devices, instances, mapping, filters,
                   acked>>

\* remove_nio as it would be if it dropped the circuits that name the port
remove_nio_purge(port_number) ==
    /\ CanCall /\ Started
    /\ IF port_number \notin DOMAIN nios
       THEN /\ Finish("remove_nio", <<port_number>>, "PortNotAllocated",
                      "None", "none", Snapshot)
            /\ UNCHANGED <<nios, mapping>>
       ELSE /\ nios' = DictDel(nios, port_number)
            /\ mapping' = [k \in {x \in DOMAIN mapping :
                                     /\ x[1] # port_number
                                     /\ mapping[x][1] # port_number}
                              |-> mapping[k]]
            /\ Finish("remove_nio", <<port_number>>, "ok", nios[port_number],
                      "none", Snapshot)
    /\ UNCHANGED <<name, hypervisor, devices, instances, filters, acked>>

remove_nio(port_number) ==
    /\ CanCall /\ Started
    /\ IF port_number \notin DOMAIN nios
       THEN /\ Finish("remove_nio", <<port_number>>, "PortNotAllocated",
                      "None", "none", Snapshot)
            /\ UNCHANGED nios
       ELSE /\ nios' = DictDel(nios, port_number)
            /\ Finish("remove_nio", <<port_number>>, "ok", nios[port_number],
                      "none", Snapshot)
    /\ UNCHANGED <<name, hypervisor, devices, instances, mapping, filters,
                   acked>>

\* ---------------------------------------------------------------- channel
\* self._hypervisor.send(...) on a device whose _hypervisor is still None
\* raises AttributeError before anything is sent.
SendOrCrash(op, args, cmd) ==
    IF hypervisor = "None"
    THEN Finish(op, args, "AttributeError", "None", "none", Snapshot)
    ELSE Suspend(op, args, "send", cmd)

\* The channel rejects, or fails to acknowledge, the command a coroutine
\* awaits: send raises, no handler catches it, the call ends there.
SendError ==
    /\ pending.pc = "send"
    /\ Finish(pending.op, pending.args, "ProtocolError", "None", "error",
              pending.before)
    /\ UNCHANGED <<name, hypervisor, devices, instances, nios, mapping,
                   filters, acked, calls>>

\* ---------------------------------------------------------------- VP
VpKey(port, vpi) == <<port, vpi>>

\* map_vp as it would be with the table written before the command is sent
map_vp_call_eager(port1, vpi1, port2, vpi2) ==
    /\ CanCall /\ Started
    /\ LET args == <<port1, vpi1, port2, vpi2>> IN
       IF port1 \notin DOMAIN nios \/ port2 \notin DOMAIN nios
       THEN /\ Finish("map_vp", args, "PortNotAllocated", "None", "none",
                      Snapshot)
            /\ UNCHANGED mapping
       ELSE /\ mapping' = DictSet(mapping, VpKey(port1, vpi1),
                                  VpKey(port2, vpi2))
            /\ SendOrCrash("map_vp", args,
                   Cmd("atmsw create_vpc", name,
                       <<nios[port1], vpi1, nios[port2], vpi2>>))
    /\ UNCHANGED <<name, hypervisor, devices, instances, nios, filters,
                   acked>>

map_vp_call(port1, vpi1, port2, vpi2) ==
    /\ CanCall /\ Started
    /\ LET args == <<port1, vpi1, port2, vpi2>> IN
       IF port1 \notin DOMAIN nios \/ port2 \notin DOMAIN nios
       THEN Finish("map_vp", args, "PortNotAllocated", "None", "none", Snapshot)
       ELSE SendOrCrash("map_vp", args,
                Cmd("atmsw create_vpc", name,
                    <<nios[port1], vpi1, nios[port2], vpi2>>))
    /\ UNCHANGED <<name, hypervisor, devices, instances, nios, mapping,
                   filters, acked>>

\* map_vp as it would be if a source key already in the table kept its
\* destination
map_vp_ack_keep_first ==
    /\ pending.op = "map_vp" /\ pending.pc = "send"
    /\ LET a == pending.args IN
       /\ mapping' = IF VpKey(a[1], a[2]) \in DOMAIN mapping THEN mapping
                     ELSE DictSet(mapping, VpKey(a[1], a[2]), VpKey(a[3], a[4]))
       /\ acked' = acked \cup {<<VpKey(a[1], a[2]), VpKey(a[3], a[4])>>}
    /\ Finish("map_vp", pending.args, "ok", "None", "ack", pending.before)
    /\ UNCHANGED <<name, hypervisor, devices, instances, nios, filters, calls>>

map_vp_ack ==
    /\ pending.op = "map_vp" /\ pending.pc = "send"
    /\ LET a == pending.args IN
       /\ mapping' = DictSet(mapping, VpKey(a[1], a[2]), VpKey(a[3], a[4]))
       /\ acked' = acked \cup {<<VpKey(a[1], a[2]), VpKey(a[3], a[4])>>}
    /\ Finish("map_vp", pending.args, "ok", "None", "ack", pending.before)
    /\ UNCHANGED <<name, hypervisor, devices, instances, nios, filters, calls>>

\* unmap_vp as it would be without the del of line 221
unmap_vp_ack_keep ==
    /\ pending.op = "unmap_vp" /\ pending.pc = "send"
    /\ acked' = acked \ {<<VpKey(pending.args[1], pending.args[2]),
                           VpKey(pending.args[3], pending.args[4])>>}
    /\ Finish("unmap_vp", pending.args, "ok", "None", "ack", pending.before)
    /\ UNCHANGED <<name, hypervisor, devices, instances, nios, mapping,
                   filters, calls>>

\* unmap_vp as it would be if it removed the entry only when the stored
\* destination is the one the call names
unmap_vp_ack_if_same_dest ==
    /\ pending.op = "unmap_vp" /\ pending.pc = "send"
    /\ LET a == pending.args
           key == VpKey(a[1], a[2]) IN
       /\ acked' = acked \ {<<key, VpKey(a[3], a[4])>>}
       /\ IF key \in DOMAIN mapping /\ mapping[key] = VpKey(a[3], a[4])
          THEN /\ mapping' = DictDel(mapping, key)
               /\ Finish("unmap_vp", a, "ok", "None", "ack", pending.before)
          ELSE /\ UNCHANGED mapping
               /\ Finish("unmap_vp", a, "KeyError", "None", "ack",
                         pending.before)
    /\ UNCHANGED <<name, hypervisor, devices, instances, nios, filters, calls>>

\* del self._mapping[key] after the acknowledgement: KeyError when the key
\* is not in the table, and then nothing is removed.
unmap_vp_ack ==
    /\ pending.op = "unmap_vp" /\ pending.pc = "send"
    /\ LET a == pending.args
           key == VpKey(a[1], a[2]) IN
       /\ acked' = acked \ {<<key, VpKey(a[3], a[4])>>}
       /\ IF key \in DOMAIN mapping
          THEN /\ mapping' = DictDel(mapping, key)
               /\ Finish("unmap_vp", a, "ok", "None", "ack", pending.before)
          ELSE /\ UNCHANGED mapping
               /\ Finish("unmap_vp", a, "KeyError", "None", "ack",
                         pending.before)
    /\ UNCHANGED <<name, hypervisor, devices, instances, nios, filters, calls>>

\* unmap_vp as it would be without its two port tests
unmap_vp_call_no_port_check(port1, vpi1, port2, vpi2) ==
    /\ CanCall /\ Started
    /\ SendOrCrash("unmap_vp", <<port1, vpi1, port2, vpi2>>,
           Cmd("atmsw delete_vpc", name,
               <<IF port1 \in DOMAIN nios THEN nios[port1] ELSE "None", vpi1,
                 IF port2 \in DOMAIN nios THEN nios[port2] ELSE "None", vpi2>>))
    /\ UNCHANGED <<name, hypervisor, devices, instances, nios, mapping,
                   filters, acked>>

unmap_vp_call(port1, vpi1, port2, vpi2) ==
    /\ CanCall /\ Started
    /\ LET args == <<port1, vpi1, port2, vpi2>> IN
       IF port1 \notin DOMAIN nios \/ port2 \notin DOMAIN nios
       THEN Finish("unmap_vp", args, "PortNotAllocated", "None", "none",
                   Snapshot)
       ELSE SendOrCrash("unmap_vp", args,
                Cmd("atmsw delete_vpc", name,
                    <<nios[port1], vpi1, nios[port2], vpi2>>))
    /\ UNCHANGED <<name, hypervisor, devices, instances, nios, mapping,
                   filters, acked>>

\* ---------------------------------------------------------------- VC
VcKey(port, vpi, vci) == <<port, vpi, vci>>

\* map_pvc as it would be without the test of the destination port
map_pvc_call_one_check(port1, vpi1, vci1, port2, vpi2, vci2) ==
    /\ CanCall /\ Started
    /\ LET args == <<port1, vpi1, vci1, port2, vpi2, vci2>> IN
       IF port1 \notin DOMAIN nios
       THEN Finish("map_pvc", args, "PortNotAllocated", "None", "none",
                   Snapshot)
       ELSE SendOrCrash("map_pvc", args,
                Cmd("atmsw create_vcc", name,
                    <<nios[port1], vpi1, vci1, "None", vpi2, vci2>>))
    /\ UNCHANGED <<name, hypervisor, devices, instances, nios, mapping,
                   filters, acked>>

map_pvc_call(port1, vpi1, vci1, port2, vpi2, vci2) ==
    /\ CanCall /\ Started
    /\ LET args == <<port1, vpi1, vci1, port2, vpi2, vci2>> IN
       IF port1 \notin DOMAIN nios \/ port2 \notin DOMAIN nios
       THEN Finish("map_pvc", args, "PortNotAllocated", "None", "none",
                   Snapshot)
       ELSE SendOrCrash("map_pvc", args,
                Cmd("atmsw create_vcc", name,
                    <<nios[port1], vpi1, vci1, nios[port2], vpi2, vci2>>))
    /\ UNCHANGED <<name, hypervisor, devices, instances, nios, mapping,
                   filters, acked>>

\* map_pvc as it would be with the VCI left out of the table key
map_pvc_ack_vp_key ==
    /\ pending.op = "map_pvc" /\ pending.pc = "send"
    /\ LET a == pending.args IN
       /\ mapping' = DictSet(mapping, VpKey(a[1], a[2]),
                             VcKey(a[4], a[5], a[6]))
       /\ acked' = acked \cup {<<VpKey(a[1], a[2]), VcKey(a[4], a[5], a[6])>>}
    /\ Finish("map_pvc", pending.args, "ok", "None", "ack", pending.before)
    /\ UNCHANGED <<name, hypervisor, devices, instances, nios, filters, calls>>

map_pvc_ack ==
    /\ pending.op = "map_pvc" /\ pending.pc = "send"
    /\ LET a == pending.args IN
       /\ mapping' = DictSet(mapping, VcKey(a[1], a[2], a[3]),
                             VcKey(a[4], a[5], a[6]))
       /\ acked' = acked \cup {<<VcKey(a[1], a[2], a[3]),
                                 VcKey(a[4], a[5], a[6])>>}
    /\ Finish("map_pvc", pending.args, "ok", "None", "ack", pending.before)
    /\ UNCHANGED <<name, hypervisor, devices, instances, nios, filters, calls>>

\* unmap_pvc as it would be with the entry dropped before the command is sent
unmap_pvc_call_eager(port1, vpi1, vci1, port2, vpi2, vci2) ==
    /\ CanCall /\ Started
    /\ LET args == <<port1, vpi1, vci1, port2, vpi2, vci2>> IN
       IF port1 \notin DOMAIN nios \/ port2 \notin DOMAIN nios
       THEN /\ Finish("unmap_pvc", args, "PortNotAllocated", "None", "none",
                      Snapshot)
            /\ UNCHANGED mapping
       ELSE /\ mapping' = DictDel(mapping, VcKey(port1, vpi1, vci1))
            /\ SendOrCrash("unmap_pvc", args,
                   Cmd("atmsw delete_vcc", name,
                       <<nios[port1], vpi1, vci1, nios[port2], vpi2, vci2>>))
    /\ UNCHANGED <<name, hypervisor, devices, instances, nios, filters,
                   acked>>

unmap_pvc_call(port1, vpi1, vci1, port2, vpi2, vci2) ==
    /\ CanCall /\ Started
    /\ LET args == <<port1, vpi1, vci1, port2, vpi2, vci2>> IN
       IF port1 \notin DOMAIN nios \/ port2 \notin DOMAIN nios
       THEN Finish("unmap_pvc", args, "PortNotAllocated", "None", "none",
                   Snapshot)
       ELSE SendOrCrash("unmap_pvc", args,
                Cmd("atmsw delete_vcc", name,
                    <<nios[port1], vpi1, vci1, nios[port2], vpi2, vci2>>))
    /\ UNCHANGED <<name, hypervisor, devices, instances, nios, mapping,
                   filters, acked>>

unmap_pvc_ack ==
    /\ pending.op = "unmap_pvc" /\ pending.pc = "send"
    /\ LET a == pending.args
           key == VcKey(a[1], a[2], a[3]) IN
       /\ acked' = acked \ {<<key, VcKey(a[4], a[5], a[6])>>}
       /\ IF key \in DOMAIN mapping
          THEN /\ mapping' = DictDel(mapping, key)
               /\ Finish("unmap_pvc", a, "ok", "None", "ack", pending.before)
          ELSE /\ UNCHANGED mapping
               /\ Finish("unmap_pvc", a, "KeyError", "None", "ack",
                         pending.before)
    /\ UNCHANGED <<name, hypervisor, devices, instances, nios, filters, calls>>

\* ---------------------------------------------------------------- lifecycle
create_call ==
    /\ CanCall /\ Started
    /\ IF hypervisor = "None"
       THEN Suspend("create", <<>>, "start_new_hypervisor",
                    [kind |-> "manager", cmd |-> "start_new_hypervisor",
                     name |-> "", args |-> <<>>])
       ELSE Suspend("create", <<>>, "send", Cmd("atmsw create", name, <<>>))
    /\ UNCHANGED <<name, hypervisor, devices, instances, nios, mapping,
                   filters, acked>>

\* self.manager.start_new_hypervisor() returns a session, or raises
start_new_hypervisor_reply(ok) ==
    /\ pending.op = "create" /\ pending.pc = "start_new_hypervisor"
    /\ IF ok
       THEN /\ hypervisor' = "hv"
            /\ pending' = [pending EXCEPT !.pc = "send"]
            /\ inflight' = Cmd("atmsw create", name, <<>>)
            /\ UNCHANGED result
       ELSE /\ UNCHANGED hypervisor
            /\ Finish("create", <<>>, "HypervisorError", "None", "error",
                      pending.before)
    /\ UNCHANGED <<name, devices, instances, nios, mapping, filters, acked,
                   calls>>

create_ack ==
    /\ pending.op = "create" /\ pending.pc = "send"
    /\ devices' = Append(devices, DeviceId)
    /\ Finish("create", <<>>, "ok", "None", "ack", pending.before)
    /\ UNCHANGED <<name, hypervisor, instances, nios, mapping, filters, acked,
                   calls>>

\* set_name as it would be with the name stored before the command is sent
set_name_call_eager(new_name) ==
    /\ CanCall /\ Started
    /\ name' = new_name
    /\ SendOrCrash("set_name", <<new_name>>,
                   Cmd("atm rename", name, <<new_name>>))
    /\ UNCHANGED <<hypervisor, devices, instances, nios, mapping, filters,
                   acked>>

set_name_call(new_name) ==
    /\ CanCall /\ Started
    /\ SendOrCrash("set_name", <<new_name>>,
                   Cmd("atm rename", name, <<new_name>>))
    /\ UNCHANGED <<name, hypervisor, devices, instances, nios, mapping,
                   filters, acked>>

set_name_ack ==
    /\ pending.op = "set_name" /\ pending.pc = "send"
    /\ name' = pending.args[1]
    /\ Finish("set_name", pending.args, "ok", "None", "ack", pending.before)
    /\ UNCHANGED <<hypervisor, devices, instances, nios, mapping, filters,
                   acked, calls>>

delete_call ==
    /\ CanCall /\ Started
    /\ SendOrCrash("delete", <<>>, Cmd("atmsw delete", name, <<>>))
    /\ UNCHANGED <<name, hypervisor, devices, instances, nios, mapping,
                   filters, acked>>

\* delete as it would be without the devices.remove of line 102
delete_ack_keep_registered ==
    /\ pending.op = "delete" /\ pending.pc = "send"
    /\ IF DeviceId \in instances
       THEN /\ instances' = instances \ {DeviceId}
            /\ Finish("delete", <<>>, "ok", "None", "ack", pending.before)
       ELSE /\ UNCHANGED instances
            /\ Finish("delete", <<>>, "ValueError", "None", "ack",
                      pending.before)
    /\ UNCHANGED <<name, hypervisor, devices, nios, mapping, filters, acked,
                   calls>>

\* devices.remove(self) then _instances.remove(self._id): list.remove raises
\* ValueError when the element is absent, and the statements after it do
\* not run.
delete_ack ==
    /\ pending.op = "delete" /\ pending.pc = "send"
    /\ IF ~InList(devices, DeviceId)
       THEN /\ UNCHANGED <<devices, instances>>
            /\ Finish("delete", <<>>, "ValueError", "None", "ack",
                      pending.before)
       ELSE /\ devices' = ListRemove(devices, DeviceId)
            /\ IF DeviceId \in instances
               THEN /\ instances' = instances \ {DeviceId}
                    /\ Finish("delete", <<>>, "ok", "None", "ack",
                              pending.before)
               ELSE /\ UNCHANGED instances
                    /\ Finish("delete", <<>>, "ValueError", "None", "ack",
                              pending.before)
    /\ UNCHANGED <<name, hypervisor, nios, mapping, filters, acked, calls>>

\* ---------------------------------------------------------------- capture
\* NIO.bind_filter(direction, filter_name) once the NIO has accepted it
BindFilter(f, nio, direction, filter_name) ==
    [f EXCEPT ![nio] =
        [input |-> IF direction \in {"in", "both"}
                   THEN filter_name ELSE f[nio].input,
         output |-> IF direction \in {"out", "both"}
                    THEN filter_name ELSE f[nio].output]]

\* NIO.unbind_filter(direction) once the NIO has accepted it
UnbindFilter(f, nio, direction) == BindFilter(f, nio, direction, "None")

\* str.lower() on one character (the letters the tags use)
Lower(c) ==
    CASE c = "A" -> "a" [] c = "C" -> "c" [] c = "D" -> "d" [] c = "F" -> "f"
      [] c = "L" -> "l" [] c = "M" -> "m" [] c = "P" -> "p" [] c = "R" -> "r"
      [] c = "T" -> "t" [] OTHER -> c

LowerStr(str) == [i \in 1..Len(str) |-> Lower(str[i])]

StartsWith(str, prefix) ==
    Len(str) >= Len(prefix) /\ SubSeq(str, 1, Len(prefix)) = prefix

\* data_link_type.lower(), then [4:] of it when it starts with "dlt_"
NormalizeDlt(data_link_type) ==
    LET lowered == LowerStr(data_link_type) IN
    IF StartsWith(lowered, <<"d", "l", "t", "_">>)
    THEN SubSeq(lowered, Len(<<"d", "l", "t", "_">>) + 1, Len(lowered))
    ELSE lowered

\* the test of line 323: both directions must carry a filter
FilterApplied(nio) ==
    filters[nio].input # "None" /\ filters[nio].output # "None"

\* start_capture as it would be without the test of line 323
start_capture_call_no_check(port_number, output_file, data_link_type) ==
    /\ CanCall /\ Started
    /\ LET args == <<port_number, output_file, data_link_type>> IN
       IF port_number \notin DOMAIN nios
       THEN Finish("start_capture", args, "PortNotAllocated", "None", "none",
                   Snapshot)
       ELSE Suspend("start_capture", args, "bind_filter",
                    NioReq("bind_filter", nios[port_number],
                           <<"both", "capture">>))
    /\ UNCHANGED <<name, hypervisor, devices, instances, nios, mapping,
                   filters, acked>>

start_capture_call(port_number, output_file, data_link_type) ==
    /\ CanCall /\ Started
    /\ LET args == <<port_number, output_file, data_link_type>> IN
       IF port_number \notin DOMAIN nios
       THEN Finish("start_capture", args, "PortNotAllocated", "None", "none",
                   Snapshot)
       ELSE IF FilterApplied(nios[port_number])
       THEN Finish("start_capture", args, "FilterAlreadyApplied", "None",
                   "none", Snapshot)
       ELSE Suspend("start_capture", args, "bind_filter",
                    NioReq("bind_filter", nios[port_number],
                           <<"both", "capture">>))
    /\ UNCHANGED <<name, hypervisor, devices, instances, nios, mapping,
                   filters, acked>>

\* start_capture as it would be if it went on to setup_filter whatever
\* bind_filter answered
bind_filter_reply_ignore_failure(ok) ==
    /\ pending.op = "start_capture" /\ pending.pc = "bind_filter"
    /\ filters' = IF ok THEN BindFilter(filters, inflight.name, "both", "capture")
                  ELSE filters
    /\ pending' = [pending EXCEPT !.pc = "setup_filter"]
    /\ inflight' = NioReq("setup_filter", inflight.name,
                          <<"both", NormalizeDlt(pending.args[3]),
                            pending.args[2]>>)
    /\ UNCHANGED result
    /\ UNCHANGED <<name, hypervisor, devices, instances, nios, mapping, acked,
                   calls>>

bind_filter_reply(ok) ==
    /\ pending.op = "start_capture" /\ pending.pc = "bind_filter"
    /\ IF ok
       THEN /\ filters' = BindFilter(filters, inflight.name, "both", "capture")
            /\ pending' = [pending EXCEPT !.pc = "setup_filter"]
            /\ inflight' = NioReq("setup_filter", inflight.name,
                                  <<"both", NormalizeDlt(pending.args[3]),
                                    pending.args[2]>>)
            /\ UNCHANGED result
       ELSE /\ UNCHANGED filters
            /\ Finish("start_capture", pending.args, "NioError", "None",
                      "error", pending.before)
    /\ UNCHANGED <<name, hypervisor, devices, instances, nios, mapping, acked,
                   calls>>

\* start_capture as it would be if it unbound the filter when setup_filter
\* fails
setup_filter_reply_rollback(ok) ==
    /\ pending.op = "start_capture" /\ pending.pc = "setup_filter"
    /\ IF ok
       THEN /\ UNCHANGED filters
            /\ Finish("start_capture", pending.args, "ok", "None", "ack",
                      pending.before)
       ELSE /\ filters' = UnbindFilter(filters, inflight.name, "both")
            /\ Finish("start_capture", pending.args, "NioError", "None",
                      "error", pending.before)
    /\ UNCHANGED <<name, hypervisor, devices, instances, nios, mapping, acked,
                   calls>>

setup_filter_reply(ok) ==
    /\ pending.op = "start_capture" /\ pending.pc = "setup_filter"
    /\ IF ok
       THEN Finish("start_capture", pending.args, "ok", "None", "ack",
                   pending.before)
       ELSE Finish("start_capture", pending.args, "NioError", "None", "error",
                   pending.before)
    /\ UNCHANGED <<name, hypervisor, devices, instances, nios, mapping,
                   filters, acked, calls>>

stop_capture_call(port_number) ==
    /\ CanCall /\ Started
    /\ IF port_number \notin DOMAIN nios
       THEN Finish("stop_capture", <<port_number>>, "PortNotAllocated", "None",
                   "none", Snapshot)
       ELSE Suspend("stop_capture", <<port_number>>, "unbind_filter",
                    NioReq("unbind_filter", nios[port_number], <<"both">>))
    /\ UNCHANGED <<name, hypervisor, devices, instances, nios, mapping,
                   filters, acked>>

unbind_filter_reply(ok) ==
    /\ pending.op = "stop_capture" /\ pending.pc = "unbind_filter"
    /\ IF ok
       THEN /\ filters' = UnbindFilter(filters, inflight.name, "both")
            /\ Finish("stop_capture", pending.args, "ok", "None", "ack",
                      pending.before)
       ELSE /\ UNCHANGED filters
            /\ Finish("stop_capture", pending.args, "NioError", "None",
                      "error", pending.before)
    /\ UNCHANGED <<name, hypervisor, devices, instances, nios, mapping, acked,
                   calls>>

\* Another holder of the NIO object binds a filter of its own in one
\* direction (the NIO is handed to add_nio by the caller, who keeps it).
nio_bind_filter(nio, direction) ==
    /\ CanCall /\ Started
    /\ filters' = BindFilter(filters, nio, direction, ForeignFilter)
    /\ Finish("nio.bind_filter", <<nio, direction>>, "ok", "None", "none",
              Snapshot)
    /\ UNCHANGED <<name, hypervisor, devices, instances, nios, mapping,
                   acked>>

\* ---------------------------------------------------------------- records
\* The call a step starts (calls' = calls + 1): it is either suspended or
\* already over when the step ends.
NewOp == IF pending' # Idle THEN pending'.op ELSE result'.op
NewArgs == IF pending' # Idle THEN pending'.args ELSE result'.args

PortOps == {"has_port", "add_nio", "remove_nio"}
CircuitCalls == {"map_vp", "unmap_vp", "map_pvc", "unmap_pvc"}
CommandOps == {"create", "set_name", "delete"} \cup CircuitCalls

\* the ports a circuit call names
ArgPorts(op, a) == IF op \in {"map_vp", "unmap_vp"} THEN {a[1], a[3]}
                   ELSE {a[1], a[4]}

\* the command each command-issuing method sends
CmdName(op) ==
    CASE op = "create" -> "atmsw create"
      [] op = "set_name" -> "atm rename"
      [] op = "delete" -> "atmsw delete"
      [] op = "map_vp" -> "atmsw create_vpc"
      [] op = "unmap_vp" -> "atmsw delete_vpc"
      [] op = "map_pvc" -> "atmsw create_vcc"
      [] op = "unmap_pvc" -> "atmsw delete_vcc"

\* The channel receives a command when a coroutine hands one to send; the
\* log keeps which command it was.
SentAfter ==
    IF inflight' # inflight /\ inflight'.kind = "send"
    THEN Append(sent, inflight'.cmd)
    ELSE sent

\* A call of a command-issuing method on a device that has a session, its
\* port checks passed, is due one command; so is a create once the session
\* it asked for has started.
IssuedAfter ==
    IF /\ calls' # calls /\ NewOp \in CommandOps /\ hypervisor = "hv"
       /\ NewOp \in CircuitCalls => ArgPorts(NewOp, NewArgs) \subseteq DOMAIN nios
    THEN Append(issued, NewOp)
    ELSE IF pending.pc = "start_new_hypervisor" /\ hypervisor' = "hv"
    THEN Append(issued, "create")
    ELSE issued

\* add_nio / remove_nio that returned (did not raise)
LastPortOpAfter ==
    IF /\ calls' # calls /\ NewOp \in {"add_nio", "remove_nio"}
       /\ result'.outcome = "ok"
    THEN [last_port_op EXCEPT
             ![IF NewOp = "add_nio" THEN NewArgs[2] ELSE NewArgs[1]] = NewOp]
    ELSE last_port_op

\* map_vp / map_pvc resumed by the acknowledgement
LastMapAfter ==
    IF /\ pending.op \in {"map_vp", "map_pvc"} /\ pending' = Idle
       /\ result'.reply = "ack"
    THEN IF pending.op = "map_vp"
         THEN DictSet(last_map, VpKey(pending.args[1], pending.args[2]),
                      VpKey(pending.args[3], pending.args[4]))
         ELSE DictSet(last_map,
                      VcKey(pending.args[1], pending.args[2], pending.args[3]),
                      VcKey(pending.args[4], pending.args[5], pending.args[6]))
    ELSE last_map

\* a step of the device with the records of its tables kept
Recorded(A) ==
    /\ A
    /\ last_port_op' = LastPortOpAfter
    /\ last_map' = LastMapAfter
    /\ UNCHANGED <<sent, issued>>

\* a step of the device with the channel's log kept
Logged(A) ==
    /\ A
    /\ sent' = SentAfter
    /\ issued' = IssuedAfter
    /\ UNCHANGED <<last_port_op, last_map>>

\* a step of the device with no records kept
Plain(A) == A /\ UNCHANGED hist

\* ---------------------------------------------------------------- while suspended
\* has_port, add_nio and remove_nio are plain methods: the event loop can
\* run a caller of them while a coroutine of the device is suspended at
\* its yield from.
has_port_suspended(port) ==
    /\ pending # Idle /\ calls < MaxCalls /\ Started
    /\ result' = [op |-> "has_port", args |-> <<port>>, outcome |-> "ok",
                  ret |-> IF port \in DOMAIN nios THEN "True" ELSE "False",
                  reply |-> "none", before |-> Snapshot, undoes |-> NoUndo]
    /\ UNCHANGED <<name, hypervisor, devices, instances, nios, mapping,
                   filters, pending, inflight, acked>>

add_nio_suspended(nio, port_number) ==
    /\ pending # Idle /\ calls < MaxCalls /\ Started
    /\ IF port_number \in DOMAIN nios
       THEN /\ UNCHANGED nios
            /\ result' = [op |-> "add_nio", args |-> <<nio, port_number>>,
                          outcome |-> "PortConflict", ret |-> "None",
                          reply |-> "none", before |-> Snapshot,
                          undoes |-> NoUndo]
       ELSE /\ nios' = DictSet(nios, port_number, nio)
            /\ result' = [op |-> "add_nio", args |-> <<nio, port_number>>,
                          outcome |-> "ok", ret |-> "None",
                          reply |-> "none", before |-> Snapshot,
                          undoes |-> NoUndo]
    /\ UNCHANGED <<name, hypervisor, devices, instances, mapping, filters,
                   pending, inflight, acked>>

remove_nio_suspended(port_number) ==
    /\ pending # Idle /\ calls < MaxCalls /\ Started
    /\ IF port_number \notin DOMAIN nios
       THEN /\ UNCHANGED nios
            /\ result' = [op |-> "remove_nio", args |-> <<port_number>>,
                          outcome |-> "PortNotAllocated", ret |-> "None",
                          reply |-> "none", before |-> Snapshot,
                          undoes |-> NoUndo]
       ELSE /\ nios' = DictDel(nios, port_number)
            /\ result' = [op |-> "remove_nio", args |-> <<port_number>>,
                          outcome |-> "ok", ret |-> nios[port_number],
                          reply |-> "none", before |-> Snapshot,
                          undoes |-> NoUndo]
    /\ UNCHANGED <<name, hypervisor, devices, instances, mapping, filters,
                   pending, inflight, acked>>

\* ---------------------------------------------------------------- next
\* One call at a time on the device (single writer).
Next ==
    \/ \E p \in Ports : Plain(has_port(p))
    \/ \E n \in NIOs, p \in Ports : Plain(add_nio(n, p))
    \/ \E p \in Ports : Plain(remove_nio(p))
    \/ \E p1 \in Ports, v1 \in Vpis, p2 \in Ports, v2 \in Vpis :
          Plain(map_vp_call(p1, v1, p2, v2))
    \/ Plain(map_vp_ack)
    \/ \E p1 \in Ports, v1 \in Vpis, p2 \in Ports, v2 \in Vpis :
          Plain(unmap_vp_call(p1, v1, p2, v2))
    \/ Plain(unmap_vp_ack)
    \/ \E p1 \in Ports, v1 \in Vpis, c1 \in Vcis,
          p2 \in Ports, v2 \in Vpis, c2 \in Vcis :
          Plain(map_pvc_call(p1, v1, c1, p2, v2, c2))
    \/ Plain(map_pvc_ack)
    \/ \E p1 \in Ports, v1 \in Vpis, c1 \in Vcis,
          p2 \in Ports, v2 \in Vpis, c2 \in Vcis :
          Plain(unmap_pvc_call(p1, v1, c1, p2, v2, c2))
    \/ Plain(unmap_pvc_ack)
    \/ Plain(create_call)
    \/ \E ok \in BOOLEAN : Plain(start_new_hypervisor_reply(ok))
    \/ Plain(create_ack)
    \/ \E n \in Names : Plain(set_name_call(n))
    \/ Plain(set_name_ack)
    \/ Plain(delete_call)
    \/ Plain(delete_ack)
    \/ \E p \in Ports, f \in Files, d \in DataLinkTypes :
          Plain(start_capture_call(p, f, d))
    \/ \E ok \in BOOLEAN : Plain(bind_filter_reply(ok))
    \/ \E ok \in BOOLEAN : Plain(setup_filter_reply(ok))
    \/ \E p \in Ports : Plain(stop_capture_call(p))
    \/ \E ok \in BOOLEAN : Plain(unbind_filter_reply(ok))
    \/ \E n \in NIOs, d \in {"in", "out"} : Plain(nio_bind_filter(n, d))
    \/ Plain(SendError)

Spec == Init /\ [][Next]_vars

\* The same, with the records of the port and circuit tables kept.
NextRecorded ==
    \/ \E p \in Ports : Recorded(has_port(p))
    \/ \E n \in NIOs, p \in Ports : Recorded(add_nio(n, p))
    \/ \E p \in Ports : Recorded(remove_nio(p))
    \/ \E p1 \in Ports, v1 \in Vpis, p2 \in Ports, v2 \in Vpis :
          Recorded(map_vp_call(p1, v1, p2, v2))
    \/ Recorded(map_vp_ack)
    \/ \E p1 \in Ports, v1 \in Vpis, p2 \in Ports, v2 \in Vpis :
          Recorded(unmap_vp_call(p1, v1, p2, v2))
    \/ Recorded(unmap_vp_ack)
    \/ \E p1 \in Ports, v1 \in Vpis, c1 \in Vcis,
          p2 \in Ports, v2 \in Vpis, c2 \in Vcis :
          Recorded(map_pvc_call(p1, v1, c1, p2, v2, c2))
    \/ Recorded(map_pvc_ack)
    \/ \E p1 \in Ports, v1 \in Vpis, c1 \in Vcis,
          p2 \in Ports, v2 \in Vpis, c2 \in Vcis :
          Recorded(unmap_pvc_call(p1, v1, c1, p2, v2, c2))
    \/ Recorded(unmap_pvc_ack)
    \/ Recorded(create_call)
    \/ \E ok \in BOOLEAN : Recorded(start_new_hypervisor_reply(ok))
    \/ Recorded(create_ack)
    \/ \E n \in Names : Recorded(set_name_call(n))
    \/ Recorded(set_name_ack)
    \/ Recorded(delete_call)
    \/ Recorded(delete_ack)
    \/ \E p \in Ports, f \in Files, d \in DataLinkTypes :
          Recorded(start_capture_call(p, f, d))
    \/ \E ok \in BOOLEAN : Recorded(bind_filter_reply(ok))
    \/ \E ok \in BOOLEAN : Recorded(setup_filter_reply(ok))
    \/ \E p \in Ports : Recorded(stop_capture_call(p))
    \/ \E ok \in BOOLEAN : Recorded(unbind_filter_reply(ok))
    \/ \E n \in NIOs, d \in {"in", "out"} : Recorded(nio_bind_filter(n, d))
    \/ Recorded(SendError)

SpecRecorded == Init /\ [][NextRecorded]_vars

\* The same, with the log of the channel kept.
NextLog ==
    \/ \E p \in Ports : Logged(has_port(p))
    \/ \E n \in NIOs, p \in Ports : Logged(add_nio(n, p))
    \/ \E p \in Ports : Logged(remove_nio(p))
    \/ \E p1 \in Ports, v1 \in Vpis, p2 \in Ports, v2 \in Vpis :
          Logged(map_vp_call(p1, v1, p2, v2))
    \/ Logged(map_vp_ack)
    \/ \E p1 \in Ports, v1 \in Vpis, p2 \in Ports, v2 \in Vpis :
          Logged(unmap_vp_call(p1, v1, p2, v2))
    \/ Logged(unmap_vp_ack)
    \/ \E p1 \in Ports, v1 \in Vpis, c1 \in Vcis,
          p2 \in Ports, v2 \in Vpis, c2 \in Vcis :
          Logged(map_pvc_call(p1, v1, c1, p2, v2, c2))
    \/ Logged(map_pvc_ack)
    \/ \E p1 \in Ports, v1 \in Vpis, c1 \in Vcis,
          p2 \in Ports, v2 \in Vpis, c2 \in Vcis :
          Logged(unmap_pvc_call(p1, v1, c1, p2, v2, c2))
    \/ Logged(unmap_pvc_ack)
    \/ Logged(create_call)
    \/ \E ok \in BOOLEAN : Logged(start_new_hypervisor_reply(ok))
    \/ Logged(create_ack)
    \/ \E n \in Names : Logged(set_name_call(n))
    \/ Logged(set_name_ack)
    \/ Logged(delete_call)
    \/ Logged(delete_ack)
    \/ \E p \in Ports, f \in Files, d \in DataLinkTypes :
          Logged(start_capture_call(p, f, d))
    \/ \E ok \in BOOLEAN : Logged(bind_filter_reply(ok))
    \/ \E ok \in BOOLEAN : Logged(setup_filter_reply(ok))
    \/ \E p \in Ports : Logged(stop_capture_call(p))
    \/ \E ok \in BOOLEAN : Logged(unbind_filter_reply(ok))
    \/ \E n \in NIOs, d \in {"in", "out"} : Logged(nio_bind_filter(n, d))
    \/ Logged(SendError)

SpecLog == Init /\ [][NextLog]_vars

\* Port methods called while a coroutine of the device is suspended.
NextConc ==
    \/ Next
    \/ \E p \in Ports : Plain(has_port_suspended(p))
    \/ \E n \in NIOs, p \in Ports : Plain(add_nio_suspended(n, p))
    \/ \E p \in Ports : Plain(remove_nio_suspended(p))

SpecConc == Init /\ [][NextConc]_vars

\* ================================================================ claims
MapOps == {"map_vp", "map_pvc"}
UnmapOps == {"unmap_vp", "unmap_pvc"}
VpOps == {"map_vp", "unmap_vp"}
CircuitOps == MapOps \cup UnmapOps

\* source key, destination key and the two ports of a circuit call
SrcKey(op, a) == IF op \in VpOps THEN VpKey(a[1], a[2])
                 ELSE VcKey(a[1], a[2], a[3])
DstKey(op, a) == IF op \in VpOps THEN VpKey(a[3], a[4])
                 ELSE VcKey(a[4], a[5], a[6])
CallPorts(op, a) == IF op \in VpOps THEN {a[1], a[3]} ELSE {a[1], a[4]}

\* C1: a mapVP or mapPVC whose create command the channel rejects (or does
\* not acknowledge) ends with the protocol error, and the circuit table, the
\* port table and the name are what the call found; the table is not
\* touched while the command is in flight either.
C1_MapFailureLeavesState ==
    /\ (result.op \in MapOps /\ result.reply = "error") =>
          /\ result.outcome = "ProtocolError"
          /\ mapping = result.before.mapping
          /\ nios = result.before.nios
          /\ name = result.before.name
    /\ (pending.op \in MapOps) =>
          /\ mapping = pending.before.mapping
          /\ nios = pending.before.nios
          /\ name = pending.before.name

C1_Witness ==
    /\ result.op = "map_vp" /\ result.reply = "error"
    /\ CallPorts("map_vp", result.args) \subseteq DOMAIN result.before.nios
    /\ mapping # EmptyDict

\* The circuit table a completed call must leave, given what it found.
TableAfter(r) ==
    IF r.op \in MapOps /\ r.reply = "ack"
    THEN DictSet(r.before.mapping, SrcKey(r.op, r.args), DstKey(r.op, r.args))
    ELSE IF /\ r.op \in UnmapOps /\ r.reply = "ack"
            /\ SrcKey(r.op, r.args) \in DOMAIN r.before.mapping
    THEN DictDel(r.before.mapping, SrcKey(r.op, r.args))
    ELSE r.before.mapping

\* C2: the circuit table never runs ahead of the hypervisor: every entry is
\* a circuit whose create command was acknowledged with no acknowledged
\* delete since; the table is untouched while a command is in flight, and a
\* completed call has written (removed) its entry only if its command was
\* acknowledged.
C2_TableNeverAhead ==
    /\ \A k \in DOMAIN mapping : <<k, mapping[k]>> \in acked
    /\ pending # Idle => mapping = pending.before.mapping
    /\ (pending = Idle /\ result.op # "none") => mapping = TableAfter(result)

C2_Witness ==
    /\ result.op = "unmap_pvc" /\ result.outcome = "ok"
    /\ mapping # EmptyDict
    /\ \E c \in acked : c[1] \notin DOMAIN mapping

\* C3: mapVP / mapPVC with the source or the destination port not in the
\* port table raises the port-not-allocated error, sends nothing (no
\* command is ever in flight for such a call) and leaves the circuit table.
C3_MapUnallocatedPort ==
    /\ (/\ result.op \in MapOps
        /\ ~(CallPorts(result.op, result.args)
                \subseteq DOMAIN result.before.nios)) =>
          /\ result.outcome = "PortNotAllocated"
          /\ result.reply = "none"
          /\ mapping = result.before.mapping
    /\ (pending.op \in MapOps) =>
          CallPorts(pending.op, pending.args) \subseteq DOMAIN pending.before.nios
    /\ pending = Idle => inflight = NoCmd

C3_Witness ==
    /\ result.op = "map_pvc" /\ result.outcome = "PortNotAllocated"
    /\ result.args[1] \in DOMAIN result.before.nios
    /\ result.args[4] \notin DOMAIN result.before.nios
    /\ result.before.hypervisor = "hv"
    /\ mapping # EmptyDict

\* C4: unmapVP / unmapPVC on a device with a session, both ports allocated
\* and a source key that is not in the circuit table raises the lookup
\* error before any delete command is sent (no command is ever in flight
\* for such a call) and leaves the circuit table.
C4_UnmapAbsentKeyFailsFast ==
    /\ (/\ result.op \in UnmapOps
        /\ result.before.hypervisor = "hv"
        /\ CallPorts(result.op, result.args) \subseteq DOMAIN result.before.nios
        /\ SrcKey(result.op, result.args) \notin DOMAIN result.before.mapping) =>
          /\ result.outcome = "KeyError"
          /\ result.reply = "none"
          /\ mapping = result.before.mapping
    /\ (pending.op \in UnmapOps /\ pending.pc = "send") =>
          SrcKey(pending.op, pending.args) \in DOMAIN pending.before.mapping

\* C5 (as claimed): an acknowledged unmapVP that directly follows the
\* acknowledged mapVP with the same arguments leaves the circuit table
\* exactly as that mapVP found it, whatever that table was, with no entry
\* for (p1, vpi1).
C5_RoundTripAnyTable ==
    (result.op = "unmap_vp" /\ result.outcome = "ok" /\ result.undoes.valid) =>
        /\ mapping = result.undoes.mapping
        /\ SrcKey("unmap_vp", result.args) \notin DOMAIN mapping

\* C5 (amended): the table is left exactly as the mapVP found it when
\* (p1, vpi1) was not a key of it; when it was, the earlier entry is gone
\* as well. In both cases no entry for (p1, vpi1) remains.
C5_RoundTripFreshKey ==
    (result.op = "unmap_vp" /\ result.outcome = "ok" /\ result.undoes.valid) =>
        LET key == SrcKey("unmap_vp", result.args)
            T == result.undoes.mapping IN
        /\ key \notin DOMAIN mapping
        /\ key \notin DOMAIN T => mapping = T
        /\ key \in DOMAIN T => mapping = DictDel(T, key)

C5_Witness ==
    /\ result.op = "unmap_vp" /\ result.outcome = "ok" /\ result.undoes.valid
    /\ SrcKey("unmap_vp", result.args) \notin DOMAIN result.undoes.mapping
    /\ result.undoes.mapping # EmptyDict
    /\ result.args[1] # result.args[3]
    /\ mapping = result.undoes.mapping

\* the VP entries and the VC entries of a circuit table
VpPart(m) == [k \in {x \in DOMAIN m : Len(x) = 2} |-> m[k]]
VcPart(m) == [k \in {x \in DOMAIN m : Len(x) = 3} |-> m[k]]

\* mapPVC / unmapPVC leave every VP entry, mapVP / unmapVP every VC entry
KeyShapesApart ==
    /\ result.op \in {"map_pvc", "unmap_pvc"} =>
          VpPart(mapping) = VpPart(result.before.mapping)
    /\ result.op \in {"map_vp", "unmap_vp"} =>
          VcPart(mapping) = VcPart(result.before.mapping)

\* C6 (as claimed): an acknowledged unmapPVC directly after the acknowledged
\* mapPVC with the same arguments is a no-op on the circuit table, and VC
\* calls never touch a VP entry nor VP calls a VC entry.
C6_PvcRoundTripNoOp ==
    /\ (/\ result.op = "unmap_pvc" /\ result.outcome = "ok"
        /\ result.undoes.valid) => mapping = result.undoes.mapping
    /\ KeyShapesApart

\* C6 (amended): the pair is a no-op when (p1, vpi1, vci1) was not a key of
\* the table; when it was, the pair removes that earlier entry. VC calls
\* never touch a VP entry nor VP calls a VC entry.
C6_PvcRoundTripFreshKey ==
    /\ (/\ result.op = "unmap_pvc" /\ result.outcome = "ok"
        /\ result.undoes.valid) =>
          LET key == SrcKey("unmap_pvc", result.args)
              T == result.undoes.mapping IN
          /\ key \notin DOMAIN T => mapping = T
          /\ key \in DOMAIN T => mapping = DictDel(T, key)
    /\ KeyShapesApart

C6_Witness ==
    /\ result.op = "unmap_pvc" /\ result.outcome = "ok" /\ result.undoes.valid
    /\ VpKey(result.args[1], result.args[2]) \in DOMAIN mapping
    /\ mapping = result.undoes.mapping

NoCaptureIn(f, n) == f[n].input = "None" /\ f[n].output = "None"
CapturingIn(f, n) == f[n].input = "capture" /\ f[n].output = "capture"

\* C7: startCapture on an allocated port whose NIO carries a filter on the
\* input or on the output direction raises the filter-already-applied error
\* and never reaches bind_filter / setup_filter (no such call is ever
\* awaiting its NIO).
C7_StartCaptureAnyFilter ==
    /\ (/\ result.op = "start_capture"
        /\ result.args[1] \in DOMAIN result.before.nios
        /\ ~NoCaptureIn(result.before.filters,
                        result.before.nios[result.args[1]])) =>
          /\ result.outcome = "FilterAlreadyApplied"
          /\ result.reply = "none"
    /\ pending.op = "start_capture" =>
          NoCaptureIn(pending.before.filters,
                      pending.before.nios[pending.args[1]])

\* what startCapture does from NoCapture and from Capturing (pending = Idle:
\* the state the call leaves)
StartCaptureEdges ==
    (/\ pending = Idle /\ result.op = "start_capture"
     /\ result.args[1] \in DOMAIN result.before.nios) =>
        LET n == result.before.nios[result.args[1]] IN
        /\ (NoCaptureIn(result.before.filters, n) /\ result.outcome = "ok") =>
              CapturingIn(filters, n)
        /\ CapturingIn(result.before.filters, n) =>
              /\ result.outcome = "FilterAlreadyApplied"
              /\ result.reply = "none"
              /\ filters = result.before.filters

\* C8 (as claimed): startCapture takes a port from NoCapture to Capturing
\* and fails, without binding again, from Capturing; stopCapture on an
\* allocated port succeeds from either state and leaves NoCapture.
C8_CaptureStateMachine ==
    /\ StartCaptureEdges
    /\ (/\ pending = Idle /\ result.op = "stop_capture"
        /\ result.args[1] \in DOMAIN result.before.nios) =>
          LET n == result.before.nios[result.args[1]] IN
          (NoCaptureIn(result.before.filters, n)
              \/ CapturingIn(result.before.filters, n)) =>
                 /\ result.outcome = "ok"
                 /\ NoCaptureIn(filters, n)

\* C8 (amended): stopCapture on an allocated port is never refused on
\* account of the state (it always reaches the NIO's unbind_filter); it
\* leaves NoCapture when the unbind succeeds, and fails leaving the state
\* as it was when the unbind fails.
C8_CaptureStateMachineUnbindMayFail ==
    /\ StartCaptureEdges
    /\ (/\ pending = Idle /\ result.op = "stop_capture"
        /\ result.args[1] \in DOMAIN result.before.nios) =>
          LET n == result.before.nios[result.args[1]] IN
          (NoCaptureIn(result.before.filters, n)
              \/ CapturingIn(result.before.filters, n)) =>
                 /\ result.reply \in {"ack", "error"}
                 /\ result.reply = "ack" =>
                       result.outcome = "ok" /\ NoCaptureIn(filters, n)
                 /\ result.reply = "error" =>
                       result.outcome # "ok" /\ filters = result.before.filters

C8_Witness ==
    /\ pending = Idle /\ result.op = "start_capture"
    /\ result.outcome = "FilterAlreadyApplied"
    /\ result.args[1] \in DOMAIN result.before.nios
    /\ CapturingIn(result.before.filters, result.before.nios[result.args[1]])

\* C9: rename sends one rename command carrying the stored name as the old
\* name; the stored name becomes the new one only with the acknowledgement;
\* a failed rename leaves the name and both tables, and every command in
\* flight carries the stored name.
C9_RenameAfterAck ==
    /\ pending.op = "set_name" =>
          /\ inflight = Cmd("atm rename", pending.before.name,
                            <<pending.args[1]>>)
          /\ name = pending.before.name
    /\ result.op = "set_name" =>
          /\ result.before.hypervisor = "hv" => result.reply \in {"ack", "error"}
          /\ result.reply = "ack" =>
                result.outcome = "ok" /\ name = result.args[1]
          /\ result.reply # "ack" =>
                result.outcome # "ok" /\ name = result.before.name
          /\ mapping = result.before.mapping
          /\ nios = result.before.nios
    /\ inflight.kind = "send" => inflight.name = name

C9_Witness ==
    /\ result.op = "set_name" /\ result.reply = "error"
    /\ result.args[1] # name
    /\ pending.op = "map_vp" /\ inflight.name = name

Count(l, x) == Cardinality({i \in 1..Len(l) : l[i] = x})

\* the device is appended to the list with the acknowledgement of create,
\* not before and not otherwise; a delete that is not acknowledged leaves
\* the list and the pool
RegisteredOnAck ==
    /\ pending.op \in {"create", "delete"} =>
          /\ devices = pending.before.devices
          /\ instances = pending.before.instances
    /\ result.op = "create" =>
          /\ instances = result.before.instances
          /\ devices = IF result.reply = "ack"
                       THEN Append(result.before.devices, DeviceId)
                       ELSE result.before.devices
    /\ (result.op = "delete" /\ result.reply # "ack") =>
          /\ devices = result.before.devices
          /\ instances = result.before.instances

\* C10 (as claimed): after an acknowledged delete() of a registered device
\* it is no longer in the device list nor its identifier in the pool.
C10_DeleteUnregisters ==
    /\ RegisteredOnAck
    /\ (/\ result.op = "delete" /\ result.reply = "ack"
        /\ InList(result.before.devices, DeviceId)) =>
          /\ ~InList(devices, DeviceId)
          /\ DeviceId \notin instances

\* C10 (amended): an acknowledged delete() removes one registration and
\* then frees the identifier; the device is gone from the list when it was
\* registered once; not registered, delete raises and frees nothing.
C10_DeleteRemovesOneRegistration ==
    /\ RegisteredOnAck
    /\ (result.op = "delete" /\ result.reply = "ack") =>
          IF InList(result.before.devices, DeviceId)
          THEN /\ devices = ListRemove(result.before.devices, DeviceId)
               /\ Count(result.before.devices, DeviceId) = 1 =>
                     ~InList(devices, DeviceId)
               /\ DeviceId \in result.before.instances =>
                     result.outcome = "ok" /\ DeviceId \notin instances
          ELSE /\ result.outcome = "ValueError"
               /\ devices = result.before.devices
               /\ instances = result.before.instances

C10_Witness ==
    /\ result.op = "delete" /\ result.outcome = "ok"
    /\ Count(result.before.devices, DeviceId) = 1
    /\ devices = <<>> /\ instances = {}

\* C11: the channel has received exactly one command for each call of a
\* command-issuing method (create, set_name, delete, map/unmap VP,
\* map/unmap PVC) that passed its port checks on a device with a session, in
\* the order of the calls, and the command is that method's; has_port,
\* add_nio and remove_nio never send anything and are never left waiting.
C11_OneCommandPerCall ==
    /\ Len(sent) = Len(issued)
    /\ \A i \in 1..Len(sent) :
          i <= Len(issued) /\ sent[i] = CmdName(issued[i])
    /\ pending.op \notin PortOps
    /\ (pending = Idle /\ result.op \in PortOps) =>
          result.reply = "none" /\ inflight = NoCmd

\* create, add_nio, add_nio, map_vp: the channel got create, create_vpc
C11_Witness ==
    /\ sent = <<"atmsw create", "atmsw create_vpc">>
    /\ calls = 4
    /\ result.op = "map_vp" /\ result.outcome = "ok"
    /\ result.args[1] # result.args[3]
    /\ mapping = DictSet(EmptyDict, VpKey(result.args[1], result.args[2]),
                         VpKey(result.args[3], result.args[4]))

\* C12: a port is a key of the port table exactly when the last add_nio /
\* remove_nio that succeeded on it was an add_nio; has_port answers whether
\* the port is a key and changes nothing; a remove_nio that succeeds takes
\* the key out of the table and returns the NIO that was bound to it.
C12_HasPortIffAllocated ==
    /\ \A p \in Ports : (p \in DOMAIN nios) <=> (last_port_op[p] = "add_nio")
    /\ (pending = Idle /\ result.op = "has_port") =>
          /\ result.outcome = "ok"
          /\ (result.ret = "True") <=> (result.args[1] \in DOMAIN nios)
          /\ result.ret \in {"True", "False"}
          /\ Snapshot = result.before
    /\ (pending = Idle /\ result.op = "remove_nio" /\ result.outcome = "ok") =>
          /\ result.args[1] \in DOMAIN result.before.nios
          /\ result.args[1] \notin DOMAIN nios
          /\ nios = DictDel(result.before.nios, result.args[1])
          /\ result.ret = result.before.nios[result.args[1]]
          /\ result.ret \in NIOs

\* has_port on a port that was added and then removed
C12_Witness ==
    /\ pending = Idle /\ result.op = "has_port" /\ result.ret = "False"
    /\ last_port_op[result.args[1]] = "remove_nio"
    /\ nios # EmptyDict

\* C13: add_nio on a port that already has a NIO raises the port-conflict
\* error and the port still has its first NIO; remove_nio on a port that
\* has none raises the port-not-allocated error; a port call that raises
\* leaves the port table (and the circuit table) as it found them.
C13_FailedPortOpLeavesTable ==
    (pending = Idle /\ result.op \in {"add_nio", "remove_nio"}) =>
        /\ (result.op = "add_nio"
               /\ result.args[2] \in DOMAIN result.before.nios) =>
              /\ result.outcome = "PortConflict"
              /\ nios[result.args[2]] = result.before.nios[result.args[2]]
        /\ (result.op = "remove_nio"
               /\ result.args[1] \notin DOMAIN result.before.nios) =>
              result.outcome = "PortNotAllocated"
        /\ result.outcome # "ok" =>
              /\ nios = result.before.nios
              /\ mapping = result.before.mapping

\* a second add_nio, with another NIO, on a port that has one
C13_Witness ==
    /\ pending = Idle /\ result.op = "add_nio"
    /\ result.outcome = "PortConflict"
    /\ result.args[1] # result.before.nios[result.args[2]]
    /\ nios[result.args[2]] = result.before.nios[result.args[2]]

\* C14: when map_vp / map_pvc writes a circuit into the circuit table, the
\* source port and the destination port of the circuit are keys of the
\* port table at that moment, also when remove_nio ran while the call was
\* suspended on its command.
C14_MapPortsAllocatedAtRecord ==
    (pending = Idle /\ result.op \in MapOps /\ result.reply = "ack") =>
        /\ SrcKey(result.op, result.args) \in DOMAIN mapping
        /\ CallPorts(result.op, result.args) \subseteq DOMAIN nios

\* the NIO of the port a capture call names
CaptureNio(c) == c.before.nios[c.args[1]]

\* the tag setup_filter is given for the default data link type
AtmRfc1483 == <<"a", "t", "m", "_", "r", "f", "c", "1", "4", "8", "3">>

\* C15: within one start_capture, bind_filter("both", "capture") is invoked
\* first and setup_filter("both", <normalised tag> <file>) only once
\* bind_filter has succeeded; when bind_filter fails setup_filter is not
\* invoked and start_capture raises; start_capture returns normally only
\* when setup_filter has succeeded too.
C15_BindThenSetup ==
    /\ [](pending.op = "start_capture" =>
            \/ /\ pending.pc = "bind_filter"
               /\ inflight = NioReq("bind_filter", CaptureNio(pending),
                                    <<"both", "capture">>)
            \/ /\ pending.pc = "setup_filter"
               /\ inflight.kind = "nio" /\ inflight.cmd = "setup_filter"
               /\ inflight.name = CaptureNio(pending)
               /\ inflight.args[1] = "both"
               /\ inflight.args[2] = NormalizeDlt(pending.args[3])
               /\ inflight.args[2] \in {AtmRfc1483, <<"p", "p", "p">>}
               /\ inflight.args[3] = pending.args[2]
               /\ CapturingIn(filters, CaptureNio(pending)))
    /\ [][(inflight'.cmd = "setup_filter" /\ inflight.cmd # "setup_filter") =>
             /\ inflight.cmd = "bind_filter"
             /\ filters' = BindFilter(filters, inflight.name, "both", "capture")
             /\ filters' # filters]_vars
    /\ [][(inflight.cmd = "bind_filter" /\ filters' = filters
              /\ inflight' # inflight) =>
             /\ inflight' = NoCmd /\ pending' = Idle
             /\ result'.op = "start_capture" /\ result'.outcome # "ok"]_vars
    /\ [][(inflight.cmd = "setup_filter" /\ inflight' # inflight) =>
             /\ inflight' = NoCmd /\ pending' = Idle
             /\ result'.op = "start_capture"
             /\ (result'.outcome = "ok") <=> (result'.reply = "ack")]_vars
    /\ []((pending = Idle /\ result.op = "start_capture"
             /\ result.outcome = "ok") =>
            /\ result.reply = "ack"
            /\ CapturingIn(filters, CaptureNio(result)))

\* start_capture over, raised by bind_filter: nothing was bound
C15_Witness ==
    /\ pending = Idle /\ result.op = "start_capture"
    /\ result.reply = "error" /\ result.outcome = "NioError"
    /\ NoCaptureIn(filters, CaptureNio(result))
    /\ result.args[3] = <<"P", "P", "P">>

\* the circuits of a table that name a port, as source or as destination
CircuitsOn(m, p) == {k \in DOMAIN m : k[1] = p \/ m[k][1] = p}

\* C16: remove_nio never touches the circuit table and sends nothing: the
\* circuits that name the removed port stay in the table (so the table can
\* name a port that is not in the port table).
C16_RemovePortLeavesCircuits ==
    /\ pending.op # "remove_nio"
    /\ (pending = Idle /\ result.op = "remove_nio") =>
          /\ mapping = result.before.mapping
          /\ result.reply = "none"
          /\ inflight = NoCmd
          /\ name = result.before.name

\* a port removed with a circuit on it: the circuit is still in the table
C16_Witness ==
    /\ pending = Idle /\ result.op = "remove_nio" /\ result.outcome = "ok"
    /\ result.args[1] \notin DOMAIN nios
    /\ CircuitsOn(mapping, result.args[1]) # {}
    /\ \E k \in DOMAIN mapping : k[1] # mapping[k][1]

\* unmap_vp / unmap_pvc with a port not in the port table raises the
\* port-not-allocated error, sends nothing and leaves the circuit table
UnmapPortChecks ==
    /\ (/\ result.op \in UnmapOps
        /\ ~(CallPorts(result.op, result.args)
                \subseteq DOMAIN result.before.nios)) =>
          /\ result.outcome = "PortNotAllocated"
          /\ result.reply = "none"
          /\ mapping = result.before.mapping
    /\ (pending.op \in UnmapOps) =>
          CallPorts(pending.op, pending.args) \subseteq DOMAIN pending.before.nios

\* C17 (as claimed): unmap has the port preconditions of map, hence an
\* unmap call never removes an entry whose source or destination port is
\* not in the port table.
C17_DanglingEntryStays ==
    /\ UnmapPortChecks
    /\ (pending = Idle /\ result.op \in UnmapOps) =>
          \A k \in DOMAIN result.before.mapping :
             (\/ k[1] \notin DOMAIN result.before.nios
              \/ result.before.mapping[k][1] \notin DOMAIN result.before.nios) =>
                k \in DOMAIN mapping

\* C17 (amended): unmap has the port preconditions of map, hence an unmap
\* call never removes an entry whose source port is not in the port table;
\* an entry whose destination port alone is gone goes with an unmap call
\* on its source key that names an allocated destination port.
C17_DanglingSourceEntryStays ==
    /\ UnmapPortChecks
    /\ (pending = Idle /\ result.op \in UnmapOps) =>
          /\ \A k \in DOMAIN result.before.mapping :
                k[1] \notin DOMAIN result.before.nios =>
                   k \in DOMAIN mapping /\ mapping[k] = result.before.mapping[k]
          /\ mapping # result.before.mapping =>
                /\ CallPorts(result.op, result.args)
                      \subseteq DOMAIN result.before.nios
                /\ mapping = DictDel(result.before.mapping,
                                     SrcKey(result.op, result.args))

\* unmap of a circuit whose source port was removed: refused, entry kept
C17_Witness ==
    /\ pending = Idle /\ result.op = "unmap_vp"
    /\ result.outcome = "PortNotAllocated"
    /\ result.before.hypervisor = "hv"
    /\ SrcKey("unmap_vp", result.args) \in DOMAIN mapping
    /\ mapping[SrcKey("unmap_vp", result.args)] = DstKey("unmap_vp", result.args)
    /\ result.args[1] \notin DOMAIN nios

\* C18: an acknowledged map_vp / map_pvc on a source key that is already in
\* the circuit table returns normally, replaces the destination of that
\* key and leaves the keys and every other entry; each key of the table
\* carries one destination, that of the last acknowledged map on the key.
C18_OverwriteLastMapWins ==
    /\ (pending = Idle /\ result.op \in MapOps /\ result.reply = "ack") =>
          LET key == SrcKey(result.op, result.args)
              T == result.before.mapping IN
          /\ result.outcome = "ok"
          /\ mapping[key] = DstKey(result.op, result.args)
          /\ DOMAIN mapping = DOMAIN T \cup {key}
          /\ key \in DOMAIN T => DOMAIN mapping = DOMAIN T
          /\ \A k \in DOMAIN T : k # key => mapping[k] = T[k]
    /\ \A k \in DOMAIN mapping :
          k \in DOMAIN last_map /\ mapping[k] = last_map[k]

\* a second map_vp on a key, to another destination, with another circuit
\* in the table
C18_Witness ==
    /\ pending = Idle /\ result.op = "map_vp" /\ result.reply = "ack"
    /\ SrcKey("map_vp", result.args) \in DOMAIN result.before.mapping
    /\ result.before.mapping[SrcKey("map_vp", result.args)]
          # DstKey("map_vp", result.args)
    /\ Cardinality(DOMAIN mapping) >= 2

\* both directions of a NIO carry a filter (what line 323 tests)
FilterAppliedIn(f, n) == f[n].input # "None" /\ f[n].output # "None"

\* C19: when bind_filter has succeeded and setup_filter fails, start_capture
\* raises and the NIO keeps the capture filter in both directions, the
\* port table and the circuit table being as the call found them; a
\* start_capture on a port whose NIO carries a filter in both directions
\* raises the filter-already-applied error without reaching the NIO, and a
\* NIO stops carrying one only by a stop_capture that succeeds on it.
C19_NoRollback ==
    /\ [](pending.pc = "setup_filter" =>
             /\ CapturingIn(filters, inflight.name)
             /\ nios = pending.before.nios
             /\ mapping = pending.before.mapping)
    /\ [][(pending.pc = "setup_filter" /\ pending' = Idle
              /\ result'.reply = "error") =>
             /\ result'.op = "start_capture" /\ result'.outcome # "ok"
             /\ CapturingIn(filters', inflight.name)
             /\ filters' = filters
             /\ nios' = pending.before.nios
             /\ mapping' = pending.before.mapping]_vars
    /\ []((/\ pending = Idle /\ result.op = "start_capture"
           /\ result.args[1] \in DOMAIN result.before.nios
           /\ FilterAppliedIn(result.before.filters, CaptureNio(result))) =>
             /\ result.outcome = "FilterAlreadyApplied"
             /\ result.reply = "none"
             /\ filters = result.before.filters
             /\ nios = result.before.nios
             /\ mapping = result.before.mapping)
    /\ [][\A n \in NIOs :
             (FilterAppliedIn(filters, n) /\ ~FilterAppliedIn(filters', n)) =>
                /\ pending.op = "stop_capture" /\ inflight.name = n
                /\ pending.args[1] \in DOMAIN nios
                /\ nios[pending.args[1]] = n
                /\ result'.op = "stop_capture" /\ result'.outcome = "ok"]_vars

\* start_capture raised by setup_filter: the capture filter is bound
C19_Witness ==
    /\ pending = Idle /\ result.op = "start_capture"
    /\ result.reply = "error"
    /\ NoCaptureIn(result.before.filters, CaptureNio(result))
    /\ CapturingIn(filters, CaptureNio(result))

\* C20: an acknowledged unmap_vp / unmap_pvc removes the entry of its
\* source key whatever destination the table holds for it; the delete
\* command names the destination of the call, which is never compared
\* with the stored one.
C20_UnmapIgnoresStoredDestination ==
    /\ (/\ pending = Idle /\ result.op \in UnmapOps /\ result.reply = "ack"
        /\ SrcKey(result.op, result.args) \in DOMAIN result.before.mapping) =>
          /\ result.outcome = "ok"
          /\ mapping = DictDel(result.before.mapping,
                               SrcKey(result.op, result.args))
    /\ (pending.op = "unmap_vp") =>
          LET a == pending.args IN
          inflight = Cmd("atmsw delete_vpc", name,
                         <<nios[a[1]], a[2], nios[a[3]], a[4]>>)
    /\ (pending.op = "unmap_pvc") =>
          LET a == pending.args IN
          inflight = Cmd("atmsw delete_vcc", name,
                         <<nios[a[1]], a[2], a[3], nios[a[4]], a[5], a[6]>>)

\* unmap_vp naming a destination other than the stored one: entry removed
C20_Witness ==
    /\ pending = Idle /\ result.op = "unmap_vp" /\ result.outcome = "ok"
    /\ SrcKey("unmap_vp", result.args) \in DOMAIN result.before.mapping
    /\ result.before.mapping[SrcKey("unmap_vp", result.args)]
          # DstKey("unmap_vp", result.args)
    /\ SrcKey("unmap_vp", result.args) \notin DOMAIN mapping

====
